---- MODULE Spec2Model ----
(***************************************************************************)
(* Model of src/search/localization_jit.py: approximate max-pooling        *)
(* localization (integral image, windowed sums, area generator, coarse     *)
(* search with aspect-ratio relaxation, coordinate-descent refinement).    *)
(*                                                                         *)
(* Arithmetic.  Feature entries are naturals, so the integral image and    *)
(* the windowed sums are exact integers.  aspect_ratio_factor is kept in   *)
(* tenths (1.1 is 11, the increment 0.5 is 5) and the test                 *)
(* abs(log(a/b)) > log(f) is decided exactly on the rationals.  A score is *)
(* a real number cos(angle); it is represented by the rational that        *)
(* determines it (see _compute_area_score below) and compared exactly.     *)
(* Coordinates are 0-based as in the source; an area is the tuple          *)
(* <<x1, y1, x2, y2>> = (left, upper, right, lower).                       *)
(***************************************************************************)
EXTENDS Integers, Sequences, FiniteSets, TLC

VARIABLES
    mode,                 \* "localize" | "refine" | "sum": the function entered
    features,             \* features[y][x][c], y in 0..H-1, x in 0..W-1
    query,                \* direction of the L2-normalised query
    query_image_shape,    \* <<height, width>> of the query image
    step_size,            \* localize's step_size
    aspect_ratio_factor,  \* in tenths
    exp,                  \* exponent given to _compute_integral_image
    pc,                   \* position in the running function
    integral_image,       \* None until built
    cands,                \* the areas the generator of this sweep yields
    idx,                  \* next element of cands to score
    best_area,            \* None or an area
    best_score,
    step,                 \* _area_refinement: current step size
    it,                   \* _area_refinement: iteration at this step size
    init_area,            \* the box handed to _area_refinement
    init_area_score,
    tried,                \* history: the last iteration's box and the 8 boxes it scored
    factors,              \* history: aspect_ratio_factor of each sweep started
    sum_area,             \* "sum" mode: the area given to _integral_image_sum
    value,                \* "sum" mode: what _integral_image_sum returned
    result                \* None or the returned box

vars == << mode, features, query, query_image_shape, step_size,
           aspect_ratio_factor, exp, pc, integral_image, cands, idx,
           best_area, best_score, step, it, init_area, init_area_score,
           tried, factors, sum_area, value, result >>

----------------------------------------------------------------------------
(* Bounds of the model *)

\* largest canvas height
MaxH == 2
\* largest canvas width
MaxW == 3
\* sweeps of the relaxation loop the model follows (the loop has no cap)
MaxSweeps == 4
\* largest feature entry in "sum" mode
MaxVal == 2
\* largest exponent in "sum" mode
MaxExp == 3

(* Program constants *)

AML_EXP == 10
ITERATIONS == 10
MAX_STEP == 3
FACTOR_INC == 5
DEFAULT_FACTOR == 11

Channels == {1, 2}
None == << >>

Max(a, b) == IF a >= b THEN a ELSE b
Min(a, b) == IF a <= b THEN a ELSE b

RECURSIVE Pow(_, _)
Pow(b, e) == IF e = 0 THEN 1 ELSE b * Pow(b, e - 1)

Height(image) == Cardinality(DOMAIN image)
Width(image) == Cardinality(DOMAIN image[0])

----------------------------------------------------------------------------
(* _compute_integral_image *)

\* np.power(image, exp)
Powered(image, e) ==
    [y \in DOMAIN image |->
        [x \in DOMAIN image[y] |->
            [c \in Channels |-> Pow(image[y][x][c], e)]]]

\* np.cumsum of f over 0..n-1
CumSum(f, n) ==
    LET g[i \in 0..(n - 1)] == IF i = 0 THEN f[0] ELSE g[i - 1] + f[i]
    IN  g

\* np.fmax(0.0, v) on one entry
FMax0(v) == IF v < 0 THEN 0 ELSE v

ComputeIntegralImage(image, e) ==
    LET h == Height(image)
        w == Width(image)
        p == Powered(image, e)
        rows == [y \in 0..(h - 1) |->
                    [c \in Channels |->
                        CumSum([x \in 0..(w - 1) |-> p[y][x][c]], w)]]
        cols == [x \in 0..(w - 1) |->
                    [c \in Channels |->
                        CumSum([y \in 0..(h - 1) |-> rows[y][c][x]], h)]]
    IN  [y \in 0..(h - 1) |->
            [x \in 0..(w - 1) |->
                [c \in Channels |-> FMax0(cols[x][c][y])]]]

----------------------------------------------------------------------------
(* _integral_image_sum *)

\* _integral_image_sum without line 94 (the top left area is not added back)
IntegralImageSumNoAddBack(ii, area) ==
    LET x1 == area[1]
        y1 == area[2]
        x2 == area[3]
        y2 == area[4]
    IN  [c \in Channels |->
            FMax0(ii[y2][x2][c]
                  - (IF x1 > 0 THEN ii[y2][x1 - 1][c] ELSE 0)
                  - (IF y1 > 0 THEN ii[y1 - 1][x2][c] ELSE 0))]


IntegralImageSum(ii, area) ==
    LET x1 == area[1]
        y1 == area[2]
        x2 == area[3]
        y2 == area[4]
    IN  [c \in Channels |->
            FMax0(ii[y2][x2][c]
                  - (IF x1 > 0 THEN ii[y2][x1 - 1][c] ELSE 0)
                  - (IF y1 > 0 THEN ii[y1 - 1][x2][c] ELSE 0)
                  + (IF x1 > 0 /\ y1 > 0 THEN ii[y1 - 1][x1 - 1][c] ELSE 0))]

----------------------------------------------------------------------------
(* _compute_area_score                                                     *)
(*                                                                         *)
(* With s the windowed sum, the code returns the cosine of the angle       *)
(* between the query and the vector (s[1]^(1/exp), s[2]^(1/exp)), clamped  *)
(* to [-1, 1].  The queries of the model are the unit vectors along        *)
(* <<1,0>>, <<0,1>> and <<1,1>>.  For a query along an axis the angle      *)
(* has tangent (off/on)^(1/exp), off and on being the sums of the other    *)
(* and of the query's channel; along the diagonal the angle has the        *)
(* tangent of atan((hi/lo)^(1/exp)) - 45 degrees, hi and lo the larger and *)
(* the smaller sum.  In both cases the score is a strictly decreasing      *)
(* function of the rational num/den (den = 0 standing for infinity) that   *)
(* the record keeps: off/on, respectively hi/lo - 1.  Scores of one query  *)
(* are therefore compared exactly by cross                                 *)
(* multiplication, and the score is 1.0 exactly when the pooled vector is  *)
(* parallel to the query.  The entries are non-negative, so the real score *)
(* lies in [0, 1] and the clamp changes nothing.  A window whose sum is    *)
(* zero in every channel gives 0/0: NaN, which the clamp lets through.     *)
(***************************************************************************)

NaN == [kind |-> "nan", num |-> 0, den |-> 0]
NegInf == [kind |-> "ninf", num |-> 0, den |-> 0]

Queries == { <<1, 0>>, <<0, 1>>, <<1, 1>> }

Pooled(q, s) ==
    IF s[1] = 0 /\ s[2] = 0 THEN NaN
    ELSE IF q = <<1, 0>> THEN [kind |-> "num", num |-> s[2], den |-> s[1]]
    ELSE IF q = <<0, 1>> THEN [kind |-> "num", num |-> s[1], den |-> s[2]]
    ELSE [kind |-> "num", num |-> Max(s[1], s[2]) - Min(s[1], s[2]),
                          den |-> Min(s[1], s[2])]

ComputeAreaScore(q, area, ii) == Pooled(q, IntegralImageSum(ii, area))

\* a > b on floats: false as soon as one side is NaN
ScoreGT(a, b) ==
    /\ a.kind = "num"
    /\ \/ b.kind = "ninf"
       \/ b.kind = "num" /\ a.num * b.den < b.num * a.den

\* a == b on floats: NaN equals nothing
ScoreEQ(a, b) ==
    \/ a.kind = "ninf" /\ b.kind = "ninf"
    \/ a.kind = "num" /\ b.kind = "num" /\ a.num * b.den = b.num * a.den

----------------------------------------------------------------------------
(* _area_generator *)

\* range(a, b, s) for s # 0, as a sequence
Range(a, b, s) ==
    LET n == IF s > 0
             THEN (IF b > a THEN (b - a + s - 1) \div s ELSE 0)
             ELSE (IF a > b THEN (a - b + (-s) - 1) \div (-s) ELSE 0)
    IN  [i \in 1..n |-> a + (i - 1) * s]

\* the test without abs(): np.log(num/den) > np.log(f10/10)
LogGT(num, den, f10) == 10 * num > f10 * den

\* abs(np.log(num/den)) > np.log(f10/10), for num, den > 0
AbsLogGT(num, den, f10) ==
    IF num >= den THEN 10 * num > f10 * den ELSE 10 * den > f10 * num

\* ratio > max_aspect_ratio_div for the area of width aw and height ah, the
\* target aspect ratio being arw / arh
TooFar(arw, arh, aw, ah, f10) == AbsLogGT(arw * ah, arh * aw, f10)

\* line 34-45: what the innermost loop yields for x1, x2, y1
LoopY2(x1, x2, y1, height, stepsz, arw, arh, f10) ==
    LET r == Range(y1 + stepsz - 1, height, stepsz)
        f[i \in 0..Len(r)] ==
            IF i = 0 THEN << >>
            ELSE f[i - 1] \o
                 (IF TooFar(arw, arh, x2 - x1 + 1, r[i] - y1 + 1, f10)
                  THEN << >>
                  ELSE << <<x1, y1, x2, r[i]>> >>)
    IN  f[Len(r)]

\* line 33: the loop over y1 for x1, x2
LoopY1(x1, x2, height, stepsz, arw, arh, f10) ==
    LET r == Range(0, height, stepsz)
        f[i \in 0..Len(r)] ==
            IF i = 0 THEN << >>
            ELSE f[i - 1] \o LoopY2(x1, x2, r[i], height, stepsz, arw, arh, f10)
    IN  f[Len(r)]

\* line 32: the loop over x2 for x1
LoopX2(x1, height, width, stepsz, arw, arh, f10) ==
    LET r == Range(x1 + stepsz - 1, width, stepsz)
        f[i \in 0..Len(r)] ==
            IF i = 0 THEN << >>
            ELSE f[i - 1] \o LoopY1(x1, r[i], height, stepsz, arw, arh, f10)
    IN  f[Len(r)]

\* the areas the generator yields when the rows are scanned before the
\* columns: the areas of the transposed problem, transposed back
AreaGeneratorYFirst(height, width, stepsz, arw, arh, f10) ==
    LET r == Range(0, height, stepsz)
        f[i \in 0..Len(r)] ==
            IF i = 0 THEN << >>
            ELSE f[i - 1] \o LoopX2(r[i], width, height, stepsz, arh, arw, f10)
        t == f[Len(r)]
    IN  [k \in 1..Len(t) |-> << t[k][2], t[k][1], t[k][4], t[k][3] >>]

\* line 31: the loop over x1; the sequence of the areas yielded, in order
AreaGenerator(height, width, stepsz, arw, arh, f10) ==
    LET r == Range(0, width, stepsz)
        f[i \in 0..Len(r)] ==
            IF i = 0 THEN << >>
            ELSE f[i - 1] \o LoopX2(r[i], height, width, stepsz, arw, arh, f10)
    IN  f[Len(r)]

----------------------------------------------------------------------------
(* _area_refinement: one pass of the body of the inner loop *)

\* min_ranges without the opposite coordinates
MinRangesZero(b) == << 0, 0, 0, 0 >>


MinRanges(b) == << 0, 0, b[1], b[2] >>
MaxRanges(b, height, width) == << b[3], b[4], width - 1, height - 1 >>

\* the box scored by "try decrease coordinate"
Decreased(b, coord, stp) ==
    [b EXCEPT ![coord] = Max(b[coord] - stp, MinRanges(b)[coord])]

\* the box scored by "try increase coordinate"
Increased(b, coord, stp, height, width) ==
    [b EXCEPT ![coord] = Min(b[coord] + stp, MaxRanges(b, height, width)[coord])]

\* the 8 boxes in the order the code scores them
Trials(b, stp, height, width) ==
    [k \in 1..8 |->
        IF k % 2 = 1 THEN Decreased(b, (k + 1) \div 2, stp)
                     ELSE Increased(b, k \div 2, stp, height, width)]

\* score < iter_best_score
ImprovesReversed(score, iter_best_score) == ScoreGT(iter_best_score, score)

\* score != iter_best_score
ImprovesNotEqual(score, iter_best_score) == ~ScoreEQ(score, iter_best_score)

\* score > iter_best_score
Improves(score, iter_best_score) == ScoreGT(score, iter_best_score)

\* iter_best_area and iter_best_score after the 8 trials
IterBest(q, b, bscore, ii, stp) ==
    LET t == Trials(b, stp, Height(ii), Width(ii))
        f[k \in 0..8] ==
            IF k = 0 THEN [area |-> b, score |-> bscore]
            ELSE LET prev == f[k - 1]
                     sc == ComputeAreaScore(q, t[k], ii)
                 IN  IF Improves(sc, prev.score)
                     THEN [area |-> t[k], score |-> sc]
                     ELSE prev
    IN  f[8]

----------------------------------------------------------------------------
(* Inputs *)

Zero == <<0, 0>>

\* feature vectors of one pixel given to localize and _area_refinement
PixelVals == { Zero, <<1, 0>>, <<0, 1>>, <<1, 1>> }

\* feature vectors of one pixel given to _compute_integral_image alone
SumVals == { Zero } \cup { <<v, MaxVal - v>> : v \in 0..MaxVal }

Positions(h, w) == (0..(h - 1)) \X (0..(w - 1))

\* all boxes with 0 <= x1 <= x2 < w and 0 <= y1 <= y2 < h
ValidBoxes(h, w) ==
    { <<x1, y1, x2, y2>> : x1 \in 0..(w - 1), y1 \in 0..(h - 1),
                           x2 \in 0..(w - 1), y2 \in 0..(h - 1) }
    \ { b \in (0..(w - 1)) \X (0..(h - 1)) \X (0..(w - 1)) \X (0..(h - 1)) :
            b[1] > b[3] \/ b[2] > b[4] }

\* maps that are zero except at two marked pixels
SparseMaps(h, w, vals) ==
    { [y \in 0..(h - 1) |->
          [x \in 0..(w - 1) |->
              IF <<y, x>> = p1 THEN v1
              ELSE IF <<y, x>> = p2 THEN v2 ELSE Zero]] :
        p1 \in Positions(h, w), p2 \in Positions(h, w),
        v1 \in vals, v2 \in vals }

\* maps that are zero except on one block, uniform on the block
BlockMaps(h, w, vals) ==
    { [y \in 0..(h - 1) |->
          [x \in 0..(w - 1) |->
              IF b[1] <= x /\ x <= b[3] /\ b[2] <= y /\ y <= b[4]
              THEN v ELSE Zero]] :
        b \in ValidBoxes(h, w), v \in vals \ { Zero } }

FeatureMaps(vals) ==
    UNION { SparseMaps(h, w, vals) \cup BlockMaps(h, w, vals) :
                h \in 1..MaxH, w \in 1..MaxW }

QueryImageShapes == { <<1, 1>>, <<1, 2>>, <<2, 1>> }
StepSizes == (-1)..3
Factors == { 10, DEFAULT_FACTOR }

----------------------------------------------------------------------------
(* Initial states: the entry of localize, of _area_refinement, or of       *)
(* _compute_integral_image followed by _integral_image_sum                 *)

InitCommon ==
    /\ cands = << >>
    /\ idx = 0
    /\ tried = None
    /\ factors = << >>
    /\ sum_area = None
    /\ value = None
    /\ result = None

InitLocalize ==
    /\ mode = "localize"
    /\ features \in FeatureMaps(PixelVals)
    /\ query \in Queries
    /\ query_image_shape \in QueryImageShapes
    /\ step_size \in StepSizes
    /\ aspect_ratio_factor \in Factors
    /\ exp = AML_EXP
    /\ pc = "entry"
    /\ integral_image = None
    /\ best_area = None
    /\ best_score = NegInf
    /\ step = 0
    /\ it = 0
    /\ init_area = None
    /\ init_area_score = NegInf
    /\ InitCommon

InitRefine ==
    /\ mode = "refine"
    /\ features \in FeatureMaps(PixelVals)
    /\ query \in Queries
    /\ query_image_shape = <<1, 1>>
    /\ step_size = 1
    /\ aspect_ratio_factor = DEFAULT_FACTOR
    /\ exp = AML_EXP
    /\ pc = "refine"
    /\ integral_image = ComputeIntegralImage(features, AML_EXP)
    /\ init_area \in ValidBoxes(Height(features), Width(features))
    /\ init_area_score = ComputeAreaScore(query, init_area, integral_image)
    /\ best_area = init_area
    /\ best_score = init_area_score
    /\ step = MAX_STEP
    /\ it = 0
    /\ InitCommon

InitSum ==
    /\ mode = "sum"
    /\ features \in FeatureMaps(SumVals)
    /\ query = <<1, 0>>
    /\ query_image_shape = <<1, 1>>
    /\ step_size = 1
    /\ aspect_ratio_factor = DEFAULT_FACTOR
    /\ exp \in 1..MaxExp
    /\ pc = "entry"
    /\ integral_image = None
    /\ best_area = None
    /\ best_score = NegInf
    /\ step = 0
    /\ it = 0
    /\ init_area = None
    /\ init_area_score = NegInf
    /\ InitCommon

Init == InitLocalize \/ InitRefine

----------------------------------------------------------------------------
(* localize *)

\* lines 206-212: the two assertions hold of every input of the model; the
\* integral image is built; step_size and aspect_ratio_factor are not looked at
Entry ==
    /\ mode = "localize"
    /\ pc = "entry"
    /\ integral_image' = ComputeIntegralImage(features, AML_EXP)
    /\ pc' = "sweep"
    /\ UNCHANGED << mode, features, query, query_image_shape, step_size,
                    aspect_ratio_factor, exp, cands, idx, best_area,
                    best_score, step, it, init_area, init_area_score, tried,
                    factors, sum_area, value, result >>

\* line 217: the generator of one sweep is created and run
SweepStart ==
    /\ pc = "sweep"
    /\ step_size # 0
    /\ Len(factors) < MaxSweeps
    /\ cands' = AreaGenerator(Height(integral_image), Width(integral_image),
                              step_size, query_image_shape[2],
                              query_image_shape[1], aspect_ratio_factor)
    /\ idx' = 1
    /\ factors' = Append(factors, aspect_ratio_factor)
    /\ pc' = "score"
    /\ UNCHANGED << mode, features, query, query_image_shape, step_size,
                    aspect_ratio_factor, exp, integral_image, best_area,
                    best_score, step, it, init_area, init_area_score, tried,
                    sum_area, value, result >>

\* line 31: range() with a zero step raises ValueError
SweepValueError ==
    /\ pc = "sweep"
    /\ step_size = 0
    /\ pc' = "error"
    /\ UNCHANGED << mode, features, query, query_image_shape, step_size,
                    aspect_ratio_factor, exp, integral_image, cands, idx,
                    best_area, best_score, step, it, init_area,
                    init_area_score, tried, factors, sum_area, value, result >>

\* score >= best_score
BetterOrEqual(score, best) == ScoreGT(score, best) \/ ScoreEQ(score, best)

\* score > best_score of line 220
Better(score, best) == ScoreGT(score, best)

\* lines 219-222: one candidate of the sweep
ScoreCandidate ==
    /\ pc = "score"
    /\ idx <= Len(cands)
    /\ LET score == ComputeAreaScore(query, cands[idx], integral_image)
       IN  IF Better(score, best_score)
           THEN best_area' = cands[idx] /\ best_score' = score
           ELSE UNCHANGED << best_area, best_score >>
    /\ idx' = idx + 1
    /\ UNCHANGED << mode, features, query, query_image_shape, step_size,
                    aspect_ratio_factor, exp, pc, integral_image, cands,
                    step, it, init_area, init_area_score, tried, factors,
                    sum_area, value, result >>

\* aspect_ratio_factor *= 1.5
RelaxedTimes(f10) == (f10 * 3) \div 2

\* aspect_ratio_factor += 0.5
Relaxed(f10) == f10 + FACTOR_INC

\* lines 216, 223: the sweep is over and found nothing: relax and sweep again
SweepRetry ==
    /\ pc = "score"
    /\ idx > Len(cands)
    /\ best_area = None
    /\ aspect_ratio_factor' = Relaxed(aspect_ratio_factor)
    /\ pc' = "sweep"
    /\ UNCHANGED << mode, features, query, query_image_shape, step_size,
                    exp, integral_image, cands, idx, best_area, best_score,
                    step, it, init_area, init_area_score, tried, factors,
                    sum_area, value, result >>

\* lines 216, 223, 225 and 147-149: the sweep is over and found a box, which
\* is handed to _area_refinement
SweepFound ==
    /\ pc = "score"
    /\ idx > Len(cands)
    /\ best_area # None
    /\ aspect_ratio_factor' = Relaxed(aspect_ratio_factor)
    /\ init_area' = best_area
    /\ init_area_score' = best_score
    /\ step' = MAX_STEP
    /\ it' = 0
    /\ pc' = "refine"
    /\ UNCHANGED << mode, features, query, query_image_shape, step_size,
                    exp, integral_image, cands, idx, best_area, best_score,
                    tried, factors, sum_area, value, result >>

----------------------------------------------------------------------------
(* _area_refinement *)

\* iter_best_score == best_score of line 176
NoGain(iter_best_score, best) == ScoreEQ(iter_best_score, best)

\* lines 153-177: an iteration that ends in the break
RefineBreak ==
    /\ pc = "refine"
    /\ step >= 1
    /\ it < ITERATIONS
    /\ LET ib == IterBest(query, best_area, best_score, integral_image, step)
       IN  /\ NoGain(ib.score, best_score)
           /\ tried' = [base |-> best_area,
                        boxes |-> Trials(best_area, step,
                                         Height(integral_image),
                                         Width(integral_image))]
    /\ step' = step - 1
    /\ it' = 0
    /\ UNCHANGED << mode, features, query, query_image_shape, step_size,
                    aspect_ratio_factor, exp, pc, integral_image, cands, idx,
                    best_area, best_score, init_area, init_area_score,
                    factors, sum_area, value, result >>

\* lines 153-180: an iteration that adopts iter_best_area
RefineAdopt ==
    /\ pc = "refine"
    /\ step >= 1
    /\ it < ITERATIONS
    /\ LET ib == IterBest(query, best_area, best_score, integral_image, step)
       IN  /\ ~NoGain(ib.score, best_score)
           /\ best_area' = ib.area
           /\ best_score' = ib.score
           /\ tried' = [base |-> best_area,
                        boxes |-> Trials(best_area, step,
                                         Height(integral_image),
                                         Width(integral_image))]
    /\ it' = it + 1
    /\ UNCHANGED << mode, features, query, query_image_shape, step_size,
                    aspect_ratio_factor, exp, pc, integral_image, cands, idx,
                    step, init_area, init_area_score, factors, sum_area,
                    value, result >>

\* line 152: the iterations of this step size are used up
RefineNextStep ==
    /\ pc = "refine"
    /\ step >= 1
    /\ it = ITERATIONS
    /\ step' = step - 1
    /\ it' = 0
    /\ UNCHANGED << mode, features, query, query_image_shape, step_size,
                    aspect_ratio_factor, exp, pc, integral_image, cands, idx,
                    best_area, best_score, init_area, init_area_score, tried,
                    factors, sum_area, value, result >>

\* line 181
RefineReturn ==
    /\ pc = "refine"
    /\ step = 0
    /\ result' = best_area
    /\ pc' = "done"
    /\ UNCHANGED << mode, features, query, query_image_shape, step_size,
                    aspect_ratio_factor, exp, integral_image, cands, idx,
                    best_area, best_score, step, it, init_area,
                    init_area_score, tried, factors, sum_area, value >>

----------------------------------------------------------------------------
(* _compute_integral_image and _integral_image_sum called on their own *)

SumBuild ==
    /\ mode = "sum"
    /\ pc = "entry"
    /\ integral_image' = ComputeIntegralImage(features, exp)
    /\ pc' = "built"
    /\ UNCHANGED << mode, features, query, query_image_shape, step_size,
                    aspect_ratio_factor, exp, cands, idx, best_area,
                    best_score, step, it, init_area, init_area_score, tried,
                    factors, sum_area, value, result >>

SumArea ==
    /\ mode = "sum"
    /\ pc = "built"
    /\ \E area \in ValidBoxes(Height(features), Width(features)) :
          /\ sum_area' = area
          /\ value' = IntegralImageSum(integral_image, area)
    /\ pc' = "summed"
    /\ UNCHANGED << mode, features, query, query_image_shape, step_size,
                    aspect_ratio_factor, exp, integral_image, cands, idx,
                    best_area, best_score, step, it, init_area,
                    init_area_score, tried, factors, result >>

----------------------------------------------------------------------------

Next ==
    \/ Entry
    \/ SweepStart
    \/ SweepValueError
    \/ ScoreCandidate
    \/ SweepRetry
    \/ SweepFound
    \/ RefineBreak
    \/ RefineAdopt
    \/ RefineNextStep
    \/ RefineReturn

Spec == Init /\ [][Next]_vars

NextSum == SumBuild \/ SumArea

SpecSum == InitSum /\ [][NextSum]_vars

----------------------------------------------------------------------------
(* Properties *)

H == Height(features)
W == Width(features)

\* the score of box b on the integral image of the run
ScoreOf(b) == ComputeAreaScore(query, b, integral_image)

\* a >= b for two scores that are numbers
ScoreGE(a, b) == ScoreGT(a, b) \/ ScoreEQ(a, b)

\* the score 1.0: the pooled vector is parallel to the query
IsOne(sc) == sc.kind = "num" /\ sc.num = 0 /\ sc.den > 0

\* the sum of image[y][x][c]^e over the pixels <<x, y>> of S, pixel by pixel
RECURSIVE PixelSum(_, _, _, _)
PixelSum(image, e, c, S) ==
    IF S = {} THEN 0
    ELSE LET xy == CHOOSE p \in S : TRUE
         IN  Pow(image[xy[2]][xy[1]][c], e)
             + PixelSum(image, e, c, S \ {xy})

BruteForce(image, e, area) ==
    [c \in Channels |->
        PixelSum(image, e, c, (area[1]..area[3]) \X (area[2]..area[4]))]

\* C1: for every feature map with non-negative entries, every exponent and
\* every rectangle inside the map, the windowed sum taken from the integral
\* image equals, in every channel, the brute-force sum of the powered
\* entries over the rectangle; and every entry of the integral image is the
\* brute-force sum over the rectangle from the origin to that entry.
C1_WindowedSumIsBruteForce ==
    /\ pc = "summed" => value = BruteForce(features, exp, sum_area)
    /\ pc \in {"built", "summed"} =>
          \A y \in 0..(H - 1), x \in 0..(W - 1) :
              integral_image[y][x] = BruteForce(features, exp, <<0, 0, x, y>>)

\* a windowed sum that needs all four terms of the inclusion-exclusion, over
\* entries that the exponent changes
C1_Witness ==
    /\ pc = "summed"
    /\ exp > 1
    /\ sum_area[1] > 0 /\ sum_area[2] > 0
    /\ value[1] > 1
    /\ integral_image[sum_area[2] - 1][sum_area[1] - 1][1] > 0

\* C2: refinement is score-monotonic: started with the score of its initial
\* box, best_score never decreases from one iteration to the next, it stays
\* the score of best_area, and the returned box scores at least
\* init_area_score.
C2_ScoreMonotonic ==
    /\ [][ (pc = "refine" /\ init_area_score.kind = "num")
              => ScoreGE(best_score', best_score) ]_vars
    /\ [] ( (pc \in {"refine", "done"} /\ init_area_score.kind = "num")
              => /\ best_score = ScoreOf(best_area)
                 /\ ScoreGE(best_score, init_area_score) )
    /\ [] ( (pc = "done" /\ init_area_score.kind = "num")
              => ScoreGE(ScoreOf(result), init_area_score) )

\* a refinement that returned a strictly better box after several adoptions
C2_Witness ==
    /\ pc = "done"
    /\ mode = "refine"
    /\ init_area_score.kind = "num"
    /\ ScoreGT(ScoreOf(result), init_area_score)
    /\ result # init_area

\* no move of one coordinate of b by stp, clamped to its range, scores
\* strictly higher than b
LocallyOptimal(b, stp) ==
    \A coord \in 1..4 :
        /\ ~ScoreGT(ScoreOf(Decreased(b, coord, stp)), ScoreOf(b))
        /\ ~ScoreGT(ScoreOf(Increased(b, coord, stp, H, W)), ScoreOf(b))

\* C3 as stated: a box that no move of one coordinate by 1 improves is
\* returned unchanged by _area_refinement.
C3_IdempotentOnOneStepOptimum ==
    (pc = "done" /\ LocallyOptimal(init_area, 1)) => result = init_area

\* C3 amended: a box that no move of one coordinate by 1, 2 or 3 (every step
\* size from max_step down to 1), clamped to its range, improves is returned
\* unchanged by _area_refinement.
C3_IdempotentOnAllStepsOptimum ==
    (pc = "done" /\ \A stp \in 1..MAX_STEP : LocallyOptimal(init_area, stp))
        => result = init_area

\* a box with a score below 1.0 that has room to move and that no move
\* improves, refined and returned
C3_Witness ==
    /\ pc = "done"
    /\ mode = "refine"
    /\ \A stp \in 1..MAX_STEP : LocallyOptimal(init_area, stp)
    /\ init_area_score.kind = "num"
    /\ ~IsOne(init_area_score)
    /\ Increased(init_area, 3, 1, H, W) # init_area
    /\ result = init_area

----------------------------------------------------------------------------

\* box a comes no later than box b in the scan order of the generator:
\* smallest x1, then x2, then y1, then y2
ScanKey(b) == << b[1], b[3], b[2], b[4] >>
ScanLE(a, b) ==
    LET ka == ScanKey(a)
        kb == ScanKey(b)
    IN  \/ ka = kb
        \/ \E i \in 1..4 : ka[i] < kb[i] /\ \A j \in 1..(i - 1) : ka[j] = kb[j]

\* the features are zero except on block b, where no pixel is zero
IsBlock(b) ==
    \A y \in 0..(H - 1), x \in 0..(W - 1) :
        (features[y][x] # Zero)
            <=> (b[1] <= x /\ x <= b[3] /\ b[2] <= y /\ y <= b[4])

\* the scenario of C4 for block b: the query is the normalised pooled vector
\* of the block, the query image has the aspect ratio of the block, and
\* localize is called with step_size 1 and the default aspect_ratio_factor
BlockScenario(b) ==
    /\ mode = "localize"
    /\ b \in ValidBoxes(H, W)
    /\ IsBlock(b)
    /\ IsOne(Pooled(query, BruteForce(features, AML_EXP, b)))
    /\ query_image_shape[2] * (b[4] - b[2] + 1)
          = query_image_shape[1] * (b[3] - b[1] + 1)
    /\ step_size = 1
    /\ factors # << >>
    /\ factors[1] = DEFAULT_FACTOR

\* C4 as stated: in the scenario, localize returns exactly the box that
\* tightly covers the block, and that box has the score 1.0.
C4_ReturnsTightBlock ==
    \A b \in ValidBoxes(H, W) :
        (pc = "done" /\ BlockScenario(b))
            => (result = b /\ IsOne(ScoreOf(result)))

\* C4 amended: in the scenario, localize returns a box with the maximal
\* score 1.0 that overlaps the block: the first candidate of the first sweep,
\* in the scan order of the generator, whose score is 1.0.  That is the
\* tight box only when no earlier candidate scores 1.0 already.
C4_ReturnsFirstPerfectBox ==
    \A b \in ValidBoxes(H, W) :
        (pc = "done" /\ BlockScenario(b))
            => /\ IsOne(ScoreOf(result))
               /\ result[1] <= b[3] /\ b[1] <= result[3]
               /\ result[2] <= b[4] /\ b[2] <= result[4]
               /\ Len(factors) = 1
               /\ \E i \in 1..Len(cands) : cands[i] = result
               /\ \E i \in 1..Len(cands) : cands[i] = b
               /\ \A i \in 1..Len(cands) :
                     IsOne(ScoreOf(cands[i])) => ScanLE(result, cands[i])
               /\ (result = b <=>
                     \A i \in 1..Len(cands) :
                         (IsOne(ScoreOf(cands[i])) /\ cands[i] # b)
                             => ~ScanLE(cands[i], b))

\* the scenario with a block of several pixels away from the origin, run to
\* the end, where the returned box is not the tight one
C4_Witness ==
    \E b \in ValidBoxes(H, W) :
        /\ pc = "done"
        /\ BlockScenario(b)
        /\ b[1] > 0
        /\ b[3] > b[1]
        /\ result # b

----------------------------------------------------------------------------

\* step_size < 1 or aspect_ratio_factor <= 1.0 in the call of localize
InvalidParameters ==
    /\ mode = "localize"
    /\ \/ step_size < 1
       \/ (IF factors = << >> THEN aspect_ratio_factor ELSE factors[1]) <= 10

\* C5: a call of localize with step_size < 1 or aspect_ratio_factor <= 1.0
\* ends in a fatal error before the integral image is built and before any
\* candidate is generated or scored, and never returns a box.
C5_RejectsInvalidParameters ==
    InvalidParameters
        => /\ pc \in {"entry", "error"}
           /\ integral_image = None
           /\ factors = << >>
           /\ cands = << >>
           /\ best_area = None
           /\ result = None

\* C6: every sweep that ends with no best area is followed by a whole new
\* sweep with aspect_ratio_factor increased by exactly 0.5, so the factors of
\* the successive sweeps are f0, f0 + 0.5, f0 + 1.0, ..., each sweep running
\* the generator with its factor; with step_size larger than the canvas the
\* generator yields nothing and the search only keeps retrying.
C6_RelaxationIsArithmetic ==
    mode = "localize" =>
        /\ \A i \in 1..Len(factors) :
              factors[i] = factors[1] + 5 * (i - 1)
        /\ (pc = "sweep" /\ factors # << >>) =>
              /\ best_area = None
              /\ aspect_ratio_factor = factors[Len(factors)] + 5
        /\ (pc = "score" /\ best_area = None) =>
              /\ aspect_ratio_factor = factors[Len(factors)]
              /\ cands = AreaGenerator(H, W, step_size, query_image_shape[2],
                                       query_image_shape[1],
                                       factors[1] + 5 * (Len(factors) - 1))
        /\ (step_size > H \/ step_size > W) =>
              /\ pc \in {"entry", "sweep", "score"}
              /\ cands = << >>
              /\ best_area = None

\* the default factor relaxed along 1.1, 1.6, 2.1, 2.6 because step_size is
\* larger than the canvas
C6_Witness ==
    /\ mode = "localize"
    /\ step_size > H /\ step_size > W
    /\ factors = << 11, 16, 21, 26 >>
    /\ pc = "sweep"

\* box b is the first, in scan order, of the boxes cs[1..n] with the highest
\* score, and sc is that score
FirstBest(b, sc, cs, n) ==
    /\ \E i \in 1..n : cs[i] = b
    /\ sc = ScoreOf(b)
    /\ \A i \in 1..n :
          /\ ~ScoreGT(ScoreOf(cs[i]), sc)
          /\ ScoreEQ(ScoreOf(cs[i]), sc) => ScanLE(b, cs[i])

\* C7: the box the coarse search hands to refinement is, among the
\* candidates of the successful sweep with the maximal score, the first in
\* the scan order (smallest x1, then x2, then y1, then y2); during a sweep
\* the best area is the first best of the candidates scored so far, so a
\* later candidate with an equal score never replaces an earlier one.
C7_FirstBestCandidateWins ==
    /\ (mode = "localize" /\ pc = "score" /\ best_area # None)
          => FirstBest(best_area, best_score, cands, idx - 1)
    /\ (mode = "localize" /\ pc \in {"refine", "done"})
          => FirstBest(init_area, init_area_score, cands, Len(cands))

\* a sweep handed over its first best box although a later candidate,
\* disjoint from it, has the same score
C7_Witness ==
    /\ mode = "localize"
    /\ pc = "refine"
    /\ \E i \in 1..Len(cands) :
          /\ cands[i] # init_area
          /\ ScoreEQ(ScoreOf(cands[i]), init_area_score)
          /\ cands[i][1] > init_area[3]

\* box b lies on the grid of step size s
OnGrid(b, s) ==
    /\ b[1] % s = 0
    /\ b[2] % s = 0
    /\ (b[3] - b[1] + 1) % s = 0
    /\ (b[4] - b[2] + 1) % s = 0

\* arw/arh divided by f10/10 <= aw/ah <= arw/arh times f10/10
WithinTolerance(arw, arh, aw, ah, f10) ==
    /\ 10 * arw * ah <= f10 * arh * aw
    /\ 10 * arh * aw <= f10 * arw * ah

SeqSet(sq) == { sq[i] : i \in 1..Len(sq) }
Transposed(b) == << b[2], b[1], b[4], b[3] >>

\* C8: for step_size >= 1 and max_aspect_ratio_div >= 1 the generator yields
\* exactly the rectangles of the step grid whose aspect ratio r satisfies
\* aspect_ratio / div <= r <= aspect_ratio * div, each once; and the
\* tolerance is symmetric under ratio inversion: on the transposed canvas
\* with the inverted target ratio it yields the transposed rectangles.
C8_GeneratorYieldsExactlyTolerated ==
    (mode = "localize" /\ pc = "score" /\ step_size >= 1
                       /\ aspect_ratio_factor >= 10)
        => /\ SeqSet(cands) =
                { b \in ValidBoxes(H, W) :
                    /\ OnGrid(b, step_size)
                    /\ WithinTolerance(query_image_shape[2],
                                       query_image_shape[1],
                                       b[3] - b[1] + 1, b[4] - b[2] + 1,
                                       aspect_ratio_factor) }
           /\ Cardinality(SeqSet(cands)) = Len(cands)
           /\ SeqSet(AreaGenerator(W, H, step_size, query_image_shape[1],
                                   query_image_shape[2], aspect_ratio_factor))
                = { Transposed(b) : b \in SeqSet(cands) }

\* a sweep on a grid of step 1 whose generator yielded some rectangles and
\* skipped others, among them one too wide and one too high
C8_Witness ==
    /\ mode = "localize"
    /\ pc = "score"
    /\ step_size = 1
    /\ query_image_shape = <<1, 2>>
    /\ cands # << >>
    /\ <<0, 0, 2, 0>> \in ValidBoxes(H, W) \ SeqSet(cands)
    /\ <<0, 0, 0, 1>> \in ValidBoxes(H, W) \ SeqSet(cands)

\* 0 <= left <= right <= W-1 and 0 <= upper <= lower <= H-1
ValidBox(b) ==
    /\ 0 <= b[1] /\ b[1] <= b[3] /\ b[3] <= W - 1
    /\ 0 <= b[2] /\ b[2] <= b[4] /\ b[4] <= H - 1

\* C9: for step_size >= 1 every rectangle the generator yields, every box
\* scored by an iteration of the refinement, every box adopted as best_area
\* and the returned box lie inside the canvas with left <= right and
\* upper <= lower; each perturbed coordinate stays within its allowed range
\* (left in [0, right], upper in [0, lower], right in [left, W-1], lower in
\* [upper, H-1], of the box the iteration started from).
C9_BoxesStayValid ==
    /\ \A i \in 1..Len(cands) : ValidBox(cands[i])
    /\ best_area # None => ValidBox(best_area)
    /\ init_area # None => ValidBox(init_area)
    /\ result # None => ValidBox(result)
    /\ tried # None =>
          /\ ValidBox(tried.base)
          /\ \A k \in 1..8 :
                LET b == tried.boxes[k]
                    c == (k + 1) \div 2
                IN  /\ ValidBox(b)
                    /\ \A j \in (1..4) \ {c} : b[j] = tried.base[j]
                    /\ c = 1 => (0 <= b[1] /\ b[1] <= tried.base[3])
                    /\ c = 2 => (0 <= b[2] /\ b[2] <= tried.base[4])
                    /\ c = 3 => (tried.base[1] <= b[3] /\ b[3] <= W - 1)
                    /\ c = 4 => (tried.base[2] <= b[4] /\ b[4] <= H - 1)

\* localize returned after an iteration whose step would have carried the
\* left coordinate past the right one and the right one out of the canvas
C9_Witness ==
    /\ mode = "localize"
    /\ pc = "done"
    /\ tried # None
    /\ tried.base[3] = W - 1
    /\ tried.base[1] < tried.base[3]
    /\ tried.boxes[2][1] = tried.base[3]
    /\ tried.boxes[5][3] = tried.base[1]

\* the generator of this sweep yielded every rectangle of the step grid
SweepSaturated ==
    SeqSet(cands) = { b \in ValidBoxes(H, W) : OnGrid(b, step_size) }

\* C10: for 1 <= step_size <= H and step_size <= W the relaxation loop ends
\* after finitely many sweeps with a best area.  Relaxing the factor only
\* adds rectangles to a sweep, so once a sweep has scored every rectangle of
\* the grid all later sweeps score the same rectangles; the loop can end
\* only if such a sweep ends with a best area.
C10_CoarseSearchTerminates ==
    (mode = "localize" /\ 1 <= step_size /\ step_size <= H /\ step_size <= W
        /\ pc = "score" /\ idx > Len(cands) /\ SweepSaturated)
        => best_area # None

====
